---------------------------- MODULE Spec2Model ----------------------------
(* A model of lightkurve-ext: the directory scan and its pickled cache     *)
(* (scan.py), the cache loader and local search of LightCurveDirectory     *)
(* (search_local.py), the author disambiguation and priority selection     *)
(* (helper_func.py, lc_collection.py) and the series algorithms            *)
(* split_by_gap and fill_gaps (lc_collection.py).                          *)
(*                                                                         *)
(* Encodings used throughout:                                              *)
(*  - a Python dict {obsid: [paths]} is a total function over ObsIds whose *)
(*    value <<>> stands for "key absent" (the code never stores an empty   *)
(*    list under a key);                                                   *)
(*  - a value that is None or a dict is a record [none, dict];             *)
(*  - a file name is the record [pipe, id, sector, cad] of the fields its  *)
(*    naming convention encodes (cad, the cadence, only in TASOC names),   *)
(*    a path is [root, sub, name];                                         *)
(*  - the glob wildcard "*" standing for a number is STAR.                 *)
EXTENDS Integers, Sequences, FiniteSets, TLC

VARIABLES
    fs,                 \* the set of paths of the .fits files on disk
    cacheDir,           \* per root: ~/.lightkurve_ext-cache/<md5(root)>
    clock,              \* the wall clock in seconds (time.localtime)
    directories,        \* LightCurveDirectory.directories
    obsid_path_dicts,   \* LightCurveDirectory.obsid_path_dicts, per root
    update_dicts,       \* LightCurveDirectory.update_dicts, per root
    op,                 \* the last constructor run and its arguments
    scanLog,            \* history: what the last scan of each root saw and did
    scans,              \* history: the number of scans run so far
    query,              \* the arguments of the last search_lightcurve call
    searchResult,       \* what that call returned or raised
    lc,                 \* _revise_author: the series passed in (its meta)
    revised,            \* _revise_author: what the call returned or raised
    collection,         \* select_lc_with_author_priority: self
    selected,           \* select_lc_with_author_priority: its outcome
    series,             \* split_by_gap / fill_gaps: self
    segments,           \* split_by_gap: the segments yielded
    pc,                 \* fill_gaps: where the call stands
    method,             \* fill_gaps: the method argument
    dt,                 \* fill_gaps: the nominal cadence
    ntime,              \* fill_gaps: the timestamps built so far
    tpos,               \* fill_gaps: the index of t in lc.time.value
    filled,             \* fill_gaps: what the call returned or raised
    binned              \* fast_bin: num_bins and what the call returned or raised

cacheVars == <<cacheDir, clock, update_dicts, op, scanLog, scans>>
searchVars == <<query, searchResult>>
reviseVars == <<lc, revised>>
selectVars == <<collection, selected>>
seriesVars == <<series, segments, pc, method, dt, ntime, tpos, filled,
                binned>>
algoVars == <<reviseVars, selectVars, seriesVars>>

vars == <<fs, cacheDir, clock, directories, obsid_path_dicts, update_dicts,
          op, scanLog, scans, searchVars, algoVars>>

---------------------------------------------------------------------------
(* Bounds of the model.                                                    *)
MaxObsId == 2
MaxClock == 1
MaxScans == 3
MaxSeries == 3
MaxSector == 2
MaxLen == 3
MaxTime == 3
MaxThreshold == 2
MaxBins == 4
MaxWidth == 2

---------------------------------------------------------------------------
(* Generic helpers.                                                        *)
Range(s) == {s[i] : i \in DOMAIN s}

Perms(S) == {s \in [1..Cardinality(S) -> S] : Range(s) = S}

---------------------------------------------------------------------------
(* Arguments. An argument is a record [kind, s, n, l]: kind "none" for     *)
(* None, "str" with the string s, "num" with the number n, "list" with the *)
(* list l (of arguments of kind "str" or "num", or of strings for author), *)
(* "other" for a value of any other type.                                  *)
ArgNone == [kind |-> "none", s |-> "", n |-> 0, l |-> <<>>]
ArgStr(x) == [kind |-> "str", s |-> x, n |-> 0, l |-> <<>>]
ArgNum(x) == [kind |-> "num", s |-> "", n |-> x, l |-> <<>>]
ArgList(x) == [kind |-> "list", s |-> "", n |-> 0, l |-> x]
ArgOther == [kind |-> "other", s |-> "", n |-> 0, l |-> <<>>]

Ok(seq) == [err |-> "", out |-> seq]
Raise(e) == [err |-> e, out |-> <<>>]

(* The values of the variables before the operation they belong to has    *)
(* run; a specification leaves the variables it does not use at them.      *)
NoQuery == [target |-> 0, sector |-> ArgNone, author |-> ArgNone,
            exptime |-> ArgNone]
NoResult == [kind |-> "idle", files |-> <<>>, err |-> "", found |-> <<>>]
NoSearch == query = NoQuery /\ searchResult = NoResult

Meta(author, timedel, sector, tstart) ==
    [AUTHOR |-> author, TIMEDEL |-> timedel, SECTOR |-> sector,
     TSTART |-> tstart]
NoMeta == Meta("", 0, 0, 0)
NoRevised == [kind |-> "idle", err |-> "", lc |-> NoMeta, arg |-> NoMeta]
NoSelected == [kind |-> "idle", err |-> "", lcs |-> <<>>,
               author_priority_list |-> <<>>]
NoSeries == [cad |-> FALSE, samples |-> <<>>]
NoSegments == [kind |-> "idle", gap_threshold |-> 0, sorted |-> <<>>,
               yielded |-> <<>>]
NoFilled == [kind |-> "idle", err |-> "", lc |-> <<>>]
NoBinned == [kind |-> "idle", err |-> "", num_bins |-> 0,
             bin_width |-> ArgNone, lc |-> <<>>]
NoRevise == lc = NoMeta /\ revised = NoRevised
NoSelect == collection = <<>> /\ selected = NoSelected
NoFill == /\ pc = "idle" /\ method = "" /\ dt = 0 /\ ntime = <<>> /\ tpos = 0
          /\ filled = NoFilled
NoSeriesOp == /\ series = NoSeries /\ segments = NoSegments /\ NoFill
              /\ binned = NoBinned
NoAlgo == NoRevise /\ NoSelect /\ NoSeriesOp

---------------------------------------------------------------------------
(* Files and paths.                                                        *)
Roots == {"r1", "r2"}
ObsIds == 1..MaxObsId

FileName(pipe, id, sector) ==
    [pipe |-> pipe, id |-> id, sector |-> sector, cad |-> 0]
TasocName(id, sector, cad) ==
    [pipe |-> "TASOC", id |-> id, sector |-> sector, cad |-> cad]
PathOf(root, sub, name) == [root |-> root, sub |-> sub, name |-> name]

EmptyDict == [k \in ObsIds |-> <<>>]

(* The cache of a root depends on that root alone, so the cache            *)
(* specification works on one root, with two products of object 1 and one  *)
(* of object MaxObsId under it, of sectors on both sides of 27.            *)
CacheRoots == {"r1"}
CacheUniverse ==
    { PathOf("r1", "a", FileName("SPOC", 1, 1)),
      PathOf("r1", "a", FileName("TESS-SPOC", 1, 1)),
      PathOf("r1", "a", FileName("QLP", MaxObsId, 27)) }

Under(fsys, root) == {p \in fsys : p.root = root}

---------------------------------------------------------------------------
(* scan.py: get_obsid_path_dict_from_single_path.                          *)

(* The five re.match patterns: the object id of a file name, or 0 when no  *)
(* pattern matches. The SPOC, fast SPOC, TESS-SPOC and QLP conventions are *)
(* matched; the TASOC expression asks for a four-digit sector and for      *)
(* "_tess" followed by underscores and "-lc", which no TASOC product name  *)
(* (two-digit sector, "_tess_v..._lc") satisfies; PATHOS has no pattern.   *)
ScannedPipes == {"SPOC", "SPOC_FAST", "TESS-SPOC", "QLP"}
(* What the matching pattern captures of a file name: every pattern has    *)
(* one group, the digits of the object id; no group when none matches.     *)
ScanGroups(name) == IF name.pipe \in ScannedPipes THEN <<name.id>> ELSE <<>>
(* obsid = int(match.group(1)) *)
ScanObsid(name) ==
    IF ScanGroups(name) = <<>> THEN 0 ELSE ScanGroups(name)[1]

(* The loop over path.rglob("*.fits"), listing the files in `order`.       *)
RECURSIVE ScanFold(_, _)
ScanFold(order, dict) ==
    IF order = <<>> THEN dict
    ELSE LET f == Head(order)
             obsid == ScanObsid(f.name)
         IN  IF obsid = 0 THEN ScanFold(Tail(order), dict)
             ELSE IF \E i \in DOMAIN dict[obsid] : dict[obsid][i].name = f.name
                  THEN ScanFold(Tail(order), dict)
                  ELSE ScanFold(Tail(order),
                                [dict EXCEPT ![obsid] = Append(@, f)])

get_obsid_path_dict_from_single_path(order) == ScanFold(order, EmptyDict)

(* rglob lists a directory tree in an order the file system chooses.       *)
Listings(fsys, root) == Perms(Under(fsys, root))

---------------------------------------------------------------------------
(* The cache directory of a root: whether it exists and its pickle files.  *)
(* A pickle file is [kind, ts, content, mtime]: its name is                *)
(* "<kind>_<ts>.pkl", ts the strftime stamp; mtime counts the writes to    *)
(* the directory, so later writes have later modification times.           *)
NoCacheDir == [exists |-> FALSE, files |-> {}]

(* Modification times are only ever compared, so the model keeps their     *)
(* rank: the files of a directory have the mtimes 1..n in writing order.   *)
Rank(files, f) == Cardinality({g \in files : g.mtime <= f.mtime})
Renumber(files) == {[f EXCEPT !.mtime = Rank(files, f)] : f \in files}

(* open(name, "wb"); pickle.dump: creates the file or replaces it, and     *)
(* makes it the most recently modified file of the directory.              *)
WriteFile(cd, kind, ts, content) ==
    LET kept == Renumber({f \in cd.files : ~(f.kind = kind /\ f.ts = ts)})
    IN  [exists |-> TRUE,
         files |-> kept \cup {[kind |-> kind, ts |-> ts, content |-> content,
                                mtime |-> Cardinality(kept) + 1]}]

EarliestByMtime(files) ==
    CHOOSE f \in files : \A g \in files : f.mtime <= g.mtime

(* sorted(paths, key=os.path.getmtime)[-1]                                 *)
LatestByMtime(files) == CHOOSE f \in files : \A g \in files : g.mtime <= f.mtime
(* sorted(paths, key=strptime(stamp))[-1]                                  *)
LatestByName(files) == CHOOSE f \in files : \A g \in files : g.ts <= f.ts

Snapshots(cd) == {f \in cd.files : f.kind = "obsid_path_dict"}

---------------------------------------------------------------------------
(* scan.py: _generate_update_report.                                       *)

(* __compare_two_dicts: per key of new_dict, the paths not in old_dict.    *)
SeqMinus(s, t) == SelectSeq(s, LAMBDA p : p \notin Range(t))
compare_two_dicts(new_dict, old_dict) ==
    [k \in ObsIds |->
        IF new_dict[k] = <<>> THEN <<>>
        ELSE IF old_dict[k] # <<>> THEN SeqMinus(new_dict[k], old_dict[k])
        ELSE new_dict[k]]

(* A returned report: None, or a dict.                                     *)
NoneReport == [none |-> TRUE, dict |-> EmptyDict]
DictReport(d) == [none |-> FALSE, dict |-> d]
(* Python's `report != {}`.                                                *)
NotEmptyDict(rep) == rep.none \/ rep.dict # EmptyDict

(* The value returned, and the cache directory after the call. The branch  *)
(* that pickles the updates falls off the end of the function and so       *)
(* returns None.                                                           *)
generate_update_report(cd, new_dict, dump_updates) ==
    IF ~cd.exists THEN [ret |-> NoneReport, cd |-> cd]
    ELSE IF Snapshots(cd) = {} THEN [ret |-> NoneReport, cd |-> cd]
    ELSE LET previous == LatestByMtime(Snapshots(cd)).content
         IN  IF new_dict = previous
             THEN [ret |-> DictReport(EmptyDict), cd |-> cd]
             ELSE LET update_dict == compare_two_dicts(new_dict, previous)
                  IN  IF update_dict = EmptyDict
                      THEN [ret |-> DictReport(update_dict), cd |-> cd]
                      ELSE IF dump_updates
                      THEN [ret |-> NoneReport,
                            cd |-> WriteFile(cd, "updates_to",
                                             LatestByName(Snapshots(cd)).ts,
                                             update_dict)]
                      ELSE [ret |-> DictReport(update_dict), cd |-> cd]

(* scan.py: _create_obsid_path_file.                                       *)
create_obsid_path_file(cd, now, obsid_path_dict) ==
    WriteFile(cd, "obsid_path_dict", now, obsid_path_dict)

(* scan.py: cache_obsid_path, the body of its loop for one root.           *)
ScanRoot(cd, listing, now, dump_results, save_update_report) ==
    LET obsid_path_dict == get_obsid_path_dict_from_single_path(listing)
        rep == generate_update_report(cd, obsid_path_dict, save_update_report)
    IN  [dict |-> obsid_path_dict,
         update |-> rep.ret,
         cd |-> IF dump_results /\ NotEmptyDict(rep.ret)
                THEN create_obsid_path_file(rep.cd, now, obsid_path_dict)
                ELSE rep.cd]

---------------------------------------------------------------------------
(* search_local.py: LightCurveDirectory.__init__, the use_cache branch for *)
(* one root: the newest file ending in ".pkl", whatever its name.          *)
LoadCache(cd) ==
    IF ~cd.exists THEN EmptyDict
    ELSE IF cd.files # {} THEN LatestByMtime(cd.files).content
    ELSE EmptyDict

---------------------------------------------------------------------------
(* History: the snapshot a scan finds as the latest persisted one.         *)
NoSnapshot == [exists |-> FALSE, content |-> EmptyDict]
PersistedSnapshot(cd) ==
    IF Snapshots(cd) = {} THEN NoSnapshot
    ELSE [exists |-> TRUE, content |-> LatestByMtime(Snapshots(cd)).content]

(* The cache specification: files come and go, the clock ticks, and        *)
(* LightCurveDirectory is constructed with scan_dir=True or use_cache=True.*)
NoOp == [kind |-> "none", dump |-> FALSE, save |-> FALSE,
         noChange |-> [r \in Roots |-> FALSE],
         prevDump |-> [r \in Roots |-> FALSE],
         prevSnap |-> [r \in Roots |-> NoSnapshot]]

NoScan == [scanned |-> FALSE, changed |-> FALSE, dumped |-> FALSE]

InitCache ==
    /\ fs = {}
    /\ cacheDir = [r \in Roots |-> NoCacheDir]
    /\ clock = 0
    /\ directories = CacheRoots
    /\ obsid_path_dicts = [r \in CacheRoots |-> EmptyDict]
    /\ update_dicts = [r \in CacheRoots |-> NoneReport]
    /\ op = NoOp
    /\ scanLog = [r \in Roots |-> NoScan]
    /\ scans = 0
    /\ NoSearch
    /\ NoAlgo

(* LightCurveDirectory(dirs, scan_dir=True, dump_scan_results=dump,        *)
(* save_updates=save): cache_obsid_path over the roots, each listed by     *)
(* rglob in the order listing[r].                                          *)
ScanDir(dirs, dump, save, listing) ==
    LET res == [r \in dirs |->
                  ScanRoot(cacheDir[r], listing[r], clock, dump, save)]
    IN  /\ cacheDir' = [r \in Roots |->
                          IF r \in dirs THEN res[r].cd ELSE cacheDir[r]]
        /\ obsid_path_dicts' = [r \in dirs |-> res[r].dict]
        /\ update_dicts' = [r \in dirs |-> res[r].update]
        /\ directories' = dirs

(* LightCurveDirectory(dirs, use_cache=True)                               *)
UseCache(dirs) ==
    /\ directories' = dirs
    /\ obsid_path_dicts' = [r \in dirs |-> LoadCache(cacheDir[r])]
    /\ update_dicts' = [r \in dirs |-> NoneReport]

(* LightCurveDirectory(dirs, cache_dicts=...): the list of directories     *)
(* becomes a set, and search_lightcurve zips the list of indexes with the  *)
(* set in the order the set is run through. cache_dicts[r] is the index    *)
(* passed at the place of root r, pairing[r] the root whose index r is     *)
(* zipped with.                                                            *)
Pairings(dirs) ==
    {f \in [dirs -> dirs] : \A a, b \in dirs : f[a] = f[b] => a = b}
CacheDicts(dirs, cache_dicts, pairing) ==
    /\ directories' = dirs
    /\ obsid_path_dicts' = [r \in dirs |-> cache_dicts[pairing[r]]]
    /\ update_dicts' = [r \in dirs |-> NoneReport]

DirSets(roots) == (SUBSET roots) \ {{}}
ListingChoices(dirs) ==
    {l \in [dirs -> UNION {Listings(fs, r) : r \in dirs}] :
        \A r \in dirs : l[r] \in Listings(fs, r)}

(* A file appears under a root, or disappears.                             *)
Touched(p) == [r \in Roots |->
                 IF r = p.root THEN [scanLog[r] EXCEPT !.changed = TRUE]
                 ELSE scanLog[r]]

CacheAddFile ==
    \E p \in CacheUniverse \ fs :
        /\ op.kind = "none"
        /\ fs' = fs \cup {p}
        /\ scanLog' = Touched(p)
        /\ UNCHANGED <<cacheDir, clock, directories, obsid_path_dicts,
                       update_dicts, op, scans, searchVars, algoVars>>

CacheRemoveFile ==
    \E p \in fs :
        /\ op.kind = "none"
        /\ fs' = fs \ {p}
        /\ scanLog' = Touched(p)
        /\ UNCHANGED <<cacheDir, clock, directories, obsid_path_dicts,
                       update_dicts, op, scans, searchVars, algoVars>>

Tick ==
    /\ op.kind = "none"
    /\ clock < MaxClock
    /\ clock' = clock + 1
    /\ UNCHANGED <<fs, cacheDir, directories, obsid_path_dicts, update_dicts,
                   op, scanLog, scans, searchVars, algoVars>>

(* The LightCurveDirectory object goes out of use.                         *)
Drop ==
    /\ op.kind # "none"
    /\ directories' = CacheRoots
    /\ obsid_path_dicts' = [r \in CacheRoots |-> EmptyDict]
    /\ update_dicts' = [r \in CacheRoots |-> NoneReport]
    /\ op' = NoOp
    /\ UNCHANGED <<fs, cacheDir, clock, scanLog, scans, searchVars, algoVars>>

CacheScanDir ==
    /\ scans < MaxScans
    /\ \E dirs \in DirSets(CacheRoots), dump \in BOOLEAN, save \in BOOLEAN :
       \E listing \in ListingChoices(dirs) :
        /\ scans' = scans + 1
        /\ ScanDir(dirs, dump, save, listing)
        /\ op' = [kind |-> "scan", dump |-> dump, save |-> save,
                  noChange |-> [r \in Roots |->
                                  /\ r \in dirs
                                  /\ scanLog[r].scanned
                                  /\ ~scanLog[r].changed],
                  prevDump |-> [r \in Roots |-> scanLog[r].dumped],
                  prevSnap |-> [r \in Roots |->
                                  IF r \in dirs
                                  THEN PersistedSnapshot(cacheDir[r])
                                  ELSE NoSnapshot]]
        /\ scanLog' = [r \in Roots |->
                         IF r \in dirs
                         THEN [scanned |-> TRUE, changed |-> FALSE,
                               dumped |-> dump]
                         ELSE scanLog[r]]
        /\ UNCHANGED <<fs, clock, searchVars, algoVars>>

CacheUseCache ==
    \E dirs \in DirSets(CacheRoots) :
        /\ UseCache(dirs)
        /\ op' = [NoOp EXCEPT !.kind = "load"]
        /\ UNCHANGED <<fs, cacheDir, clock, scanLog, scans, searchVars, algoVars>>

NextCache ==
    \/ CacheAddFile
    \/ CacheRemoveFile
    \/ Tick
    \/ CacheScanDir
    \/ CacheUseCache
    \/ Drop

SpecCache == InitCache /\ [][NextCache]_vars


---------------------------------------------------------------------------
(* Claims about the cache.                                                 *)

(* Two indexes that record the same paths under the same object ids.       *)
SameDict(a, b) == \A k \in ObsIds : Range(a[k]) = Range(b[k])

(* The full index most recently persisted for a root, empty if none.       *)
NewestSnapshot(cd) ==
    IF Snapshots(cd) = {} THEN EmptyDict
    ELSE LatestByMtime(Snapshots(cd)).content

(* C2: right after a scan with dump_results=True, the newest persisted     *)
(* snapshot of every scanned root holds the index that scan built.         *)
C2_NewestSnapshotIsScannedIndex ==
    (op.kind = "scan" /\ op.dump) =>
        \A r \in directories :
            /\ Snapshots(cacheDir[r]) # {}
            /\ SameDict(NewestSnapshot(cacheDir[r]), obsid_path_dicts[r])

(* C3: right after LightCurveDirectory(use_cache=True), the index loaded   *)
(* for every root is the full index most recently persisted for it, and    *)
(* the empty index when none was persisted.                                *)
C3_LoadsNewestFullIndex ==
    op.kind = "load" =>
        \A r \in directories :
            obsid_path_dicts[r] = NewestSnapshot(cacheDir[r])

(* C4 as stated: a scan that follows a scan of the same root with no file  *)
(* added or removed in between reports no updates (None or {}).            *)
C4_RescanReportsNothing ==
    op.kind = "scan" =>
        \A r \in directories :
            op.noChange[r] =>
                (update_dicts[r].none \/ update_dicts[r].dict = EmptyDict)

(* C4 amended: when the earlier of the two scans ran with                  *)
(* dump_results=True, the later scan returns the empty report {}.          *)
C4_RescanAfterDumpReportsNothing ==
    op.kind = "scan" =>
        \A r \in directories :
            (op.noChange[r] /\ op.prevDump[r]) =>
                update_dicts[r] = DictReport(EmptyDict)

C4_Witness ==
    /\ op.kind = "scan"
    /\ \E r \in directories :
          /\ op.noChange[r] /\ op.prevDump[r]
          /\ Cardinality(Under(fs, r)) >= 2
          /\ Cardinality(Snapshots(cacheDir[r])) >= 2


---------------------------------------------------------------------------
(* search_local.py: LightCurveDirectory.search_lightcurve.                 *)
(* A call is modelled as one that misses the @cached memo.                 *)

AUTHOR_LIST == <<"Kepler", "K2", "SPOC", "TESS-SPOC", "QLP", "TASOC",
                 "PATHOS", "CDIPS", "K2SFF", "EVEREST">>

STAR == -1

(* _pack_exptime: the values the generator yields, or the error it raises. *)
(* For a collection it yields next(_pack_exptime(e)), the first value of   *)
(* each element.                                                           *)
RECURSIVE pack_exptime(_)
PackList(l) ==
    LET packed == [i \in DOMAIN l |-> pack_exptime(l[i])]
        bad == {i \in DOMAIN l : packed[i].err # "" \/ packed[i].out = <<>>}
    IN  IF bad # {}
        THEN LET i == CHOOSE j \in bad : \A k \in bad : j <= k
             IN  Raise(IF packed[i].err # "" THEN packed[i].err
                       ELSE "RuntimeError")
        ELSE Ok([i \in DOMAIN l |-> Head(packed[i].out)])

pack_exptime(exptime) ==
    CASE exptime.kind = "str" ->
            IF exptime.s = "fast" THEN Ok(<<20>>)
            ELSE IF exptime.s = "short" THEN Ok(<<60, 120>>)
            ELSE IF exptime.s \in {"long", "ffi"} THEN Ok(<<600, 1200, 1800>>)
            ELSE Raise("ValueError")
      [] exptime.kind = "num" -> Ok(<<exptime.n>>)
      [] exptime.kind = "list" -> PackList(exptime.l)
      [] exptime.kind = "none" -> Ok(<<STAR>>)
      [] OTHER -> Raise("TypeError")

(* The sector argument as the list the loop runs over.                     *)
pack_sector(sector) ==
    CASE sector.kind = "num" -> Ok(<<sector.n>>)
      [] sector.kind = "list" -> Ok(sector.l)
      [] sector.kind = "none" -> Ok(<<STAR>>)
      [] sector.kind = "str" /\ sector.s \in {"*", "all"} -> Ok(<<STAR>>)
      [] OTHER -> Raise("TypeError")

(* The author argument as the list the loop runs over: only a single       *)
(* string is checked against AUTHOR_LIST.                                  *)
pack_author(author) ==
    CASE author.kind = "str" ->
            IF author.s \notin Range(AUTHOR_LIST) /\ author.s \notin {"*", "all"}
            THEN Raise("ValueError")
            ELSE IF author.s \in {"*", "all"} THEN Ok(AUTHOR_LIST)
            ELSE Ok(<<author.s>>)
      [] author.kind = "none" -> Ok(AUTHOR_LIST)
      [] OTHER -> Ok(author.l)

(* A glob pattern: the pipeline whose naming convention it spells, and the *)
(* sector, object id and cadence it fixes (STAR: any).                     *)
Pattern(pipe, s, target, et) ==
    [pipe |-> pipe, sector |-> s, target |-> target, et |-> et]

(* The if/elif chain of the loop body: the pattern yielded for (s, et, a). *)
pattern_of(s, et, a, target) ==
    IF a = "SPOC" /\ (et = 120 \/ et = STAR)
    THEN <<Pattern("SPOC", s, target, STAR)>>
    ELSE IF a = "SPOC" /\ (et = 20 \/ et = STAR)
    THEN <<Pattern("SPOC_FAST", s, target, STAR)>>
    ELSE IF a = "TESS-SPOC" THEN <<Pattern("TESS-SPOC", s, target, STAR)>>
    ELSE IF a = "QLP" THEN <<Pattern("QLP", s, target, STAR)>>
    ELSE IF a = "TASOC" THEN <<Pattern("TASOC", s, target, et)>>
    ELSE IF a = "PATHOS" THEN <<Pattern("PATHOS", s, target, STAR)>>
    ELSE <<>>

RECURSIVE Flatten(_)
Flatten(ss) == IF ss = <<>> THEN <<>> ELSE Head(ss) \o Flatten(Tail(ss))

(* kwargs_pattern_generator: the patterns in the order yielded, or the     *)
(* error raised when the generator is first advanced. set(...) of the      *)
(* exposure times is run through in the order etOrder.                     *)
EtOrders(exptime) ==
    LET pk == pack_exptime(exptime)
    IN  IF pk.err # "" THEN {<<>>} ELSE Perms(Range(pk.out))

kwargs_pattern_generator(q, etOrder) ==
    LET sec == pack_sector(q.sector)
        aut == pack_author(q.author)
        exp == pack_exptime(q.exptime)
    IN  IF sec.err # "" THEN Raise(sec.err)
        ELSE IF aut.err # "" THEN Raise(aut.err)
        ELSE IF sec.out = <<>> THEN Ok(<<>>)
        ELSE IF exp.err # "" THEN Raise(exp.err)
        ELSE Ok(Flatten([i \in DOMAIN sec.out |->
                 Flatten([j \in DOMAIN etOrder |->
                     Flatten([k \in DOMAIN aut.out |->
                         pattern_of(sec.out[i], etOrder[j], aut.out[k],
                                    q.target)])])]))

(* fnmatch(name, pattern), and the match rglob(pattern) makes on names.    *)
fnmatch(name, pat) ==
    /\ name.pipe = pat.pipe
    /\ name.id = pat.target
    /\ (pat.sector = STAR \/ name.sector = pat.sector)
    /\ (pat.pipe = "TASOC" => (pat.et = STAR \/ name.cad = pat.et))

(* The path of a root directory itself.                                    *)
DirPath(root) ==
    PathOf(root, "", [pipe |-> "", id |-> 0, sector |-> 0, cad |-> 0])

(* The candidate paths: per root, the paths its index records for the      *)
(* target; nothing when the index is not empty and lacks the target; the   *)
(* root itself when the index is empty.                                    *)
local_path(dicts, dirs, target) ==
    UNION {IF dicts[r] # EmptyDict
           THEN Range(dicts[r][target])
           ELSE {DirPath(r)} : r \in dirs}

(* path.rglob(pattern): the files under a root directory, in the order     *)
(* the file system lists them; nothing for a path that no longer exists.   *)
rglob(path, pat, listing) ==
    IF path = DirPath(path.root)
    THEN SelectSeq(listing[path.root], LAMBDA f : fnmatch(f.name, pat))
    ELSE <<>>

(* A removal of duplicates that tells files apart by their whole path.     *)
RECURSIVE uniq_paths(_, _)
uniq_paths(files, seen) ==
    IF files = <<>> THEN <<>>
    ELSE IF Head(files) \in seen THEN uniq_paths(Tail(files), seen)
    ELSE <<Head(files)>> \o uniq_paths(Tail(files), seen \cup {Head(files)})

(* "Remove duplicated files": the first path of every file name.           *)
RECURSIVE uniq_files(_, _)
uniq_files(files, seen) ==
    IF files = <<>> THEN <<>>
    ELSE IF Head(files).name \in seen THEN uniq_files(Tail(files), seen)
    ELSE <<Head(files)>> \o uniq_files(Tail(files), seen \cup {Head(files).name})

ResultNone == [kind |-> "None", files |-> <<>>, err |-> ""]

(* The order of paths, that of their parts as strings: the root, the       *)
(* directory, then the file name, whose spelling begins with the pipeline  *)
(* ("hlsp_pathos" < "hlsp_qlp" < "hlsp_tasoc" < "hlsp_tess-spoc" < "tess") *)
(* and goes on with the sector and the object id in the order the          *)
(* convention spells them; a SPOC name begins with the date of its sector. *)
part_rank(part) ==
    CASE part = "r1" -> 1 [] part = "r2" -> 2
      [] part = "a" -> 1 [] part = "b" -> 2
      [] part = "PATHOS" -> 1 [] part = "QLP" -> 2 [] part = "TASOC" -> 3
      [] part = "TESS-SPOC" -> 4 [] part = "SPOC" -> 5
      [] part = "SPOC_FAST" -> 5
      [] OTHER -> 0
parts(path) ==
    <<part_rank(path.root), part_rank(path.sub), part_rank(path.name.pipe)>>
    \o (IF path.name.pipe \in {"SPOC", "SPOC_FAST", "QLP"}
        THEN <<path.name.sector, path.name.id>>
        ELSE <<path.name.id, path.name.sector>>)
    \o <<path.name.cad, IF path.name.pipe = "SPOC_FAST" THEN 0 ELSE 1>>

RECURSIVE lex_less(_, _)
lex_less(a, b) ==
    IF a = <<>> \/ b = <<>> THEN a = <<>> /\ b # <<>>
    ELSE IF Head(a) # Head(b) THEN Head(a) < Head(b)
    ELSE lex_less(Tail(a), Tail(b))

(* sorted(results) *)
RECURSIVE sorted_results(_)
sorted_results(results) ==
    IF results = <<>> THEN <<>>
    ELSE LET rest == sorted_results(Tail(results))
             k == Cardinality({i \in DOMAIN rest :
                      ~lex_less(parts(Head(results)), parts(rest[i]))})
         IN  SubSeq(rest, 1, k) \o <<Head(results)>>
                 \o SubSeq(rest, k + 1, Len(rest))

(* SearchResults.__init__: self.results = sorted(results) *)
SearchResults(files) ==
    [kind |-> "SearchResults", files |-> sorted_results(files), err |-> ""]
Raised(e) == [kind |-> "raised", files |-> <<>>, err |-> e]

(* The list files after the loop over set(local_path) and the patterns.    *)
(* pathOrder is the order set(local_path) is run through, listing the      *)
(* order rglob lists the files on disk.                                    *)
found_files(fsys, q, pathOrder, etOrder, listing) ==
    LET gen == kwargs_pattern_generator(q, etOrder)
    IN  Flatten([i \in DOMAIN pathOrder |->
            Flatten([j \in DOMAIN gen.out |->
                IF pathOrder[i] \in fsys
                THEN IF fnmatch(pathOrder[i].name, gen.out[j])
                     THEN <<pathOrder[i]>> ELSE <<>>
                ELSE rglob(pathOrder[i], gen.out[j], listing)])])

(* The body of search_lightcurve. The Search action records the list      *)
(* files of the call with the result, as its history field found.          *)
search_lightcurve(dicts, dirs, fsys, q, pathOrder, etOrder, listing) ==
    LET gen == kwargs_pattern_generator(q, etOrder)
        files == found_files(fsys, q, pathOrder, etOrder, listing)
    IN  IF pathOrder = <<>> THEN ResultNone
        ELSE IF gen.err # "" THEN Raised(gen.err)
        ELSE IF files = <<>> THEN ResultNone
        ELSE SearchResults(uniq_files(files, {}))


---------------------------------------------------------------------------
(* The search specification: files come and go under two roots, a          *)
(* LightCurveDirectory is constructed over some of them with scan_dir=True,*)
(* with use_cache=True (no cache was ever dumped, so every index loads     *)
(* empty) or with cache_dicts, and search_lightcurve is called on it.      *)
SearchUniverse ==
    { PathOf("r1", "a", FileName("SPOC", 1, 1)),
      PathOf("r1", "a", FileName("QLP", 2, 1)),
      PathOf("r1", "b", TasocName(2, 1, 1800)),
      PathOf("r2", "a", FileName("SPOC", 1, 1)),
      PathOf("r2", "a", FileName("SPOC_FAST", 1, 2)) }

Query(target, sector, author, exptime) ==
    [target |-> target, sector |-> sector, author |-> author,
     exptime |-> exptime]

SectorArgs == {ArgNone, ArgNum(1), ArgList(<<1, 2>>), ArgList(<<>>),
               ArgStr("all"), ArgStr("one")}
AuthorArgs == {ArgNone, ArgStr("SPOC"), ArgStr("QLP"), ArgStr("TASOC"),
               ArgStr("all"), ArgStr("Foo"),
               ArgList(<<"TESS-SPOC", "SPOC">>), ArgList(<<"Foo">>)}
ExptimeArgs == {ArgNone, ArgNum(20), ArgNum(120), ArgStr("short"),
                ArgStr("fast"), ArgStr("bad"), ArgList(<<ArgStr("short")>>),
                ArgList(<<ArgNum(20), ArgNum(120)>>), ArgOther}

Queries ==
    {Query(t, s, ArgNone, ArgNone) : t \in ObsIds, s \in SectorArgs}
    \cup {Query(t, ArgNone, a, ArgNone) : t \in ObsIds, a \in AuthorArgs}
    \cup {Query(t, ArgNone, ArgStr("SPOC"), e) :
            t \in ObsIds, e \in ExptimeArgs}
    \cup {Query(t, ArgNone, ArgStr("TASOC"), e) :
            t \in ObsIds, e \in {ArgNum(1800), ArgStr("long")}}
    \cup {Query(t, ArgNone, a, e) :
            t \in ObsIds, a \in {ArgNone, ArgStr("QLP")},
            e \in {ArgNum(20), ArgNum(1800)}}
    \cup {Query(t, ArgStr("one"), ArgStr("Foo"), ArgStr("bad")) : t \in ObsIds}

InitSearch ==
    /\ fs = {}
    /\ cacheDir = [r \in Roots |-> NoCacheDir]
    /\ clock = 0
    /\ directories = Roots
    /\ obsid_path_dicts = [r \in Roots |-> EmptyDict]
    /\ update_dicts = [r \in Roots |-> NoneReport]
    /\ op = NoOp
    /\ scanLog = [r \in Roots |-> NoScan]
    /\ scans = 0
    /\ NoSearch
    /\ NoAlgo

SearchAddFile ==
    \E p \in SearchUniverse \ fs :
        /\ searchResult = NoResult
        /\ fs' = fs \cup {p}
        /\ UNCHANGED <<directories, obsid_path_dicts, cacheVars, searchVars,
                       algoVars>>

SearchRemoveFile ==
    \E p \in fs :
        /\ searchResult = NoResult
        /\ fs' = fs \ {p}
        /\ UNCHANGED <<directories, obsid_path_dicts, cacheVars, searchVars,
                       algoVars>>

SearchScanDir ==
    /\ searchResult = NoResult
    /\ \E dirs \in DirSets(Roots) :
       \E listing \in ListingChoices(dirs) :
        /\ ScanDir(dirs, FALSE, FALSE, listing)
        /\ op' = NoOp
        /\ UNCHANGED <<fs, clock, scanLog, scans, searchVars, algoVars>>

SearchUseCache ==
    \E dirs \in DirSets(Roots) :
        /\ searchResult = NoResult
        /\ UseCache(dirs)
        /\ op' = NoOp
        /\ UNCHANGED <<fs, cacheDir, clock, scanLog, scans, searchVars,
                       algoVars>>

(* The directory is constructed from indexes the caller holds, one per     *)
(* root and made by a scan of it; op keeps how it was constructed.         *)
SearchCacheDicts ==
    /\ searchResult = NoResult
    /\ \E dirs \in DirSets(Roots) :
       \E listing \in ListingChoices(dirs), pairing \in Pairings(dirs) :
        /\ CacheDicts(dirs,
                      [r \in dirs |->
                          get_obsid_path_dict_from_single_path(listing[r])],
                      pairing)
        /\ op' = [NoOp EXCEPT !.kind = "cache_dicts"]
        /\ UNCHANGED <<fs, cacheDir, clock, scanLog, scans, searchVars,
                       algoVars>>

(* The roots search_lightcurve globs: those whose index is empty.          *)
GlobRoots == {r \in directories : obsid_path_dicts[r] = EmptyDict}

Search ==
    /\ searchResult = NoResult
    /\ \E listing \in ListingChoices(GlobRoots), q \in Queries :
       \E pathOrder \in Perms(local_path(obsid_path_dicts, directories, q.target)),
          etOrder \in EtOrders(q.exptime) :
        /\ query' = q
        /\ searchResult' =
             search_lightcurve(obsid_path_dicts, directories, fs, q,
                               pathOrder, etOrder, listing)
             @@ [found |-> found_files(fs, q, pathOrder, etOrder, listing)]
        /\ UNCHANGED <<fs, directories, obsid_path_dicts, cacheVars, algoVars>>

(* The caller is done with the result.                                     *)
Forget ==
    /\ searchResult # NoResult
    /\ query' = NoQuery
    /\ searchResult' = NoResult
    /\ UNCHANGED <<fs, directories, obsid_path_dicts, cacheVars, algoVars>>

NextSearch ==
    \/ SearchAddFile
    \/ SearchRemoveFile
    \/ SearchScanDir
    \/ SearchUseCache
    \/ SearchCacheDicts
    \/ Search
    \/ Forget

SpecSearch == InitSearch /\ [][NextSearch]_vars

(* The patterns a query generates, and the names its result holds.         *)
QueryPatterns(q) ==
    Range(kwargs_pattern_generator(q, CHOOSE o \in EtOrders(q.exptime) : TRUE).out)
Found(q, name) == \E pat \in QueryPatterns(q) : fnmatch(name, pat)
ResultNames == {f.name : f \in Range(searchResult.files)}

(* C1: after a search that returned, for every configured root whose       *)
(* index is empty or does not hold the target id, every file under that    *)
(* root whose name matches a pattern of the query is in the result (by     *)
(* name: the same name under two roots is returned once).                  *)
C1_FallsBackToGlob ==
    searchResult.kind \in {"None", "SearchResults"} =>
        \A r \in directories :
            obsid_path_dicts[r][query.target] = <<>> =>
                \A p \in Under(fs, r) :
                    Found(query, p.name) => p.name \in ResultNames


---------------------------------------------------------------------------
(* helper_func.py: _revise_author (selection.py holds a copy of it).       *)
(* TIMEDEL, a number of days in the code, is held in microseconds: every   *)
(* value the code compares it with is a whole number of them.              *)
Second(n) == n * 1000000
Minute(n) == Second(60 * n)

Abs(x) == IF x < 0 THEN 0 - x ELSE x

(* A comparison ten times as tolerant as np.isclose.                       *)
isclose_loose(a, b) == Abs(a - b) <= b \div 10000

(* np.isclose(a, b): |a - b| <= atol + rtol * |b| with rtol = 1e-5. The    *)
(* atol of 1e-8 (minutes or seconds) is less than a microsecond.           *)
isclose(a, b) == Abs(a - b) <= b \div 100000

Returned(x, arg) == [kind |-> "done", err |-> "", lc |-> x, arg |-> arg]
RaisedBy(e, arg) == [kind |-> "raised", err |-> e, lc |-> NoMeta, arg |-> arg]

revise_author(x) ==
    IF x.AUTHOR # "SPOC" THEN Returned(x, x)
    ELSE IF isclose(x.TIMEDEL, Minute(2)) \/ isclose(x.TIMEDEL, Second(20))
    THEN Returned(x, x)
    ELSE IF \/ isclose(x.TIMEDEL, Minute(30))
            \/ isclose(x.TIMEDEL, Minute(10))
            \/ isclose(x.TIMEDEL, Second(200))
    THEN Returned([x EXCEPT !.AUTHOR = "TESS-SPOC"], x)
    ELSE RaisedBy("ValueError", x)

(* The revise specification: _revise_author is called on a series whose    *)
(* AUTHOR is one of three labels and whose TIMEDEL lies at, next to or far *)
(* from the five cadences the code knows.                                  *)
Cadences == {Second(20), Minute(2), Second(200), Minute(10), Minute(30)}
Tolerance(b) == b \div 100000
Timedels ==
    UNION {{b - Tolerance(b) - 1, b - Tolerance(b), b, b + Tolerance(b),
            b + Tolerance(b) + 1} : b \in Cadences}
    \cup {0, Second(1), Minute(1), Minute(5), Minute(20)}
Authors == {"SPOC", "TESS-SPOC", "QLP"}

InitRevise ==
    /\ fs = {}
    /\ cacheDir = [r \in Roots |-> NoCacheDir]
    /\ clock = 0
    /\ directories = Roots
    /\ obsid_path_dicts = [r \in Roots |-> EmptyDict]
    /\ update_dicts = [r \in Roots |-> NoneReport]
    /\ op = NoOp
    /\ scanLog = [r \in Roots |-> NoScan]
    /\ scans = 0
    /\ NoSearch
    /\ lc \in {Meta(a, t, 1, 0) : a \in Authors, t \in Timedels}
    /\ revised = NoRevised
    /\ NoSelect
    /\ NoSeriesOp

(* _revise_author(lc): the rewrite is made on lc.meta itself.              *)
ReviseAuthor ==
    /\ revised.kind = "idle"
    /\ revised' = revise_author(lc)
    /\ lc' = IF revised'.kind = "done" THEN revised'.lc ELSE lc
    /\ UNCHANGED <<fs, directories, obsid_path_dicts, cacheVars, searchVars,
                   selectVars, seriesVars>>

NextRevise == ReviseAuthor

SpecRevise == InitRevise /\ [][NextRevise]_vars

(* The cadences of the claim, each with the band "close to" stands for.    *)
CloseTo(t, b) == b - Tolerance(b) <= t /\ t <= b + Tolerance(b)
KeepsAuthor(t) == CloseTo(t, Minute(2)) \/ CloseTo(t, Second(20))
RewritesAuthor(t) ==
    CloseTo(t, Minute(30)) \/ CloseTo(t, Minute(10)) \/ CloseTo(t, Second(200))

(* C7: _revise_author returns a series whose AUTHOR is not "SPOC"          *)
(* unchanged whatever its TIMEDEL; for AUTHOR "SPOC" a TIMEDEL close to 2  *)
(* minutes or 20 seconds leaves the series unchanged, one close to 30      *)
(* minutes, 10 minutes or 200 seconds rewrites AUTHOR to "TESS-SPOC" and   *)
(* nothing else, and every other TIMEDEL raises ValueError.                *)
C7_ReviseAuthorClassifies ==
    revised.kind # "idle" =>
        LET x == revised.arg
        IN  IF x.AUTHOR # "SPOC" \/ KeepsAuthor(x.TIMEDEL)
            THEN revised.kind = "done" /\ revised.lc = x
            ELSE IF RewritesAuthor(x.TIMEDEL)
            THEN /\ revised.kind = "done"
                 /\ revised.lc = [x EXCEPT !.AUTHOR = "TESS-SPOC"]
            ELSE revised.kind = "raised" /\ revised.err = "ValueError"

C7_Witness ==
    /\ revised.kind = "done"
    /\ revised.arg.AUTHOR = "SPOC"
    /\ revised.lc.AUTHOR = "TESS-SPOC"
    /\ revised.arg.TIMEDEL = Minute(10) + Tolerance(Minute(10))


---------------------------------------------------------------------------
(* lc_collection.py: LightCurveCollection.select_lc_with_author_priority   *)
(* (selection.py holds a copy of it as a function).                        *)

(* sorted(lightcurves, key=TSTART), a stable sort: x goes behind every     *)
(* element of the sorted s whose TSTART is not greater.                    *)
SortedInsert(s, x) ==
    LET k == Cardinality({i \in DOMAIN s : s[i].TSTART <= x.TSTART})
    IN  SubSeq(s, 1, k) \o <<x>> \o SubSeq(s, k + 1, Len(s))

RECURSIVE LightCurveCollection(_)
LightCurveCollection(lightcurves) ==
    IF lightcurves = <<>> THEN <<>>
    ELSE SortedInsert(
             LightCurveCollection(SubSeq(lightcurves, 1, Len(lightcurves) - 1)),
             lightcurves[Len(lightcurves)])

(* self.sector and self[self.sector == sec], which builds a new collection.*)
sector(coll) == [i \in DOMAIN coll |-> coll[i].SECTOR]
with_sector(coll, sec) ==
    LightCurveCollection(SelectSeq(coll, LAMBDA x : x.SECTOR = sec))

(* The numbers of a set from the largest down, and from the smallest up.   *)
RECURSIVE descending(_)
descending(S) ==
    IF S = {} THEN <<>>
    ELSE LET m == CHOOSE x \in S : \A y \in S : y <= x
         IN  <<m>> \o descending(S \ {m})

RECURSIVE ascending(_)
ascending(S) ==
    IF S = {} THEN <<>>
    ELSE LET m == CHOOSE x \in S : \A y \in S : x <= y
         IN  <<m>> \o ascending(S \ {m})

(* The distinct sectors from the largest down.                             *)
unique_descending(secs) == descending(Range(secs))

(* np.unique(self.sector): the distinct sectors, sorted.                   *)
unique(secs) == ascending(Range(secs))

(* The same loops run with the series outermost.                           *)
pick_series_first(dup_lcc, author_priority_list) ==
    LET n == Len(author_priority_list)
        K == 1..(Len(dup_lcc) * n)
        pr(k) == author_priority_list[((k - 1) % n) + 1]
        rv(k) == revise_author(dup_lcc[((k - 1) \div n) + 1])
        stops == {k \in K : rv(k).kind = "raised" \/ rv(k).lc.AUTHOR = pr(k)}
    IN  IF stops = {} THEN [kind |-> "none", lc |-> NoMeta]
        ELSE LET k == CHOOSE i \in stops : \A j \in stops : i <= j
             IN  IF rv(k).kind = "raised"
                 THEN [kind |-> "raised", lc |-> NoMeta]
                 ELSE [kind |-> "found", lc |-> rv(k).lc]

(* The two nested loops over author_priority_list and dup_lcc: they run    *)
(* through the pairs (pr, lc) in order, revise a copy of lc, and stop at   *)
(* the first pair that raises or whose revised AUTHOR is pr.               *)
pick_by_priority(dup_lcc, author_priority_list) ==
    LET n == Len(dup_lcc)
        K == 1..(Len(author_priority_list) * n)
        pr(k) == author_priority_list[((k - 1) \div n) + 1]
        rv(k) == revise_author(dup_lcc[((k - 1) % n) + 1])
        stops == {k \in K : rv(k).kind = "raised" \/ rv(k).lc.AUTHOR = pr(k)}
    IN  IF stops = {} THEN [kind |-> "none", lc |-> NoMeta]
        ELSE LET k == CHOOSE i \in stops : \A j \in stops : i <= j
             IN  IF rv(k).kind = "raised"
                 THEN [kind |-> "raised", lc |-> NoMeta]
                 ELSE [kind |-> "found", lc |-> rv(k).lc]

(* The loop over the sectors u from position i on; acc is                  *)
(* lcc_without_duplicates, to which append adds at the end.                *)
RECURSIVE select_from(_, _, _, _, _)
select_from(coll, author_priority_list, u, i, acc) ==
    IF i > Len(u) THEN [kind |-> "done", err |-> "", lcs |-> acc]
    ELSE LET dup_lcc == with_sector(coll, u[i])
         IN  IF Len(dup_lcc) > 1
             THEN LET pick == pick_by_priority(dup_lcc, author_priority_list)
                  IN  IF pick.kind = "raised"
                      THEN [kind |-> "raised", err |-> "ValueError",
                            lcs |-> <<>>]
                      ELSE select_from(coll, author_priority_list, u, i + 1,
                                       IF pick.kind = "found"
                                       THEN Append(acc, pick.lc) ELSE acc)
             ELSE select_from(coll, author_priority_list, u, i + 1,
                              Append(acc, dup_lcc[1]))

select_lc_with_author_priority(coll, author_priority_list) ==
    IF Len(coll) = 0
    THEN [kind |-> "raised", err |-> "ValueError", lcs |-> <<>>]
    ELSE select_from(coll, author_priority_list, unique(sector(coll)), 1,
                     LightCurveCollection(<<>>))

(* The select specification: a collection of up to MaxSeries series of     *)
(* sectors 1..MaxSector, loaded in the order of their TSTART, and one call *)
(* of select_lc_with_author_priority on it.                                *)
SeriesKinds ==
    { <<"SPOC", Minute(2)>>, <<"SPOC", Minute(30)>>, <<"SPOC", Minute(1)>>,
      <<"TESS-SPOC", Minute(30)>>, <<"QLP", Minute(30)>> }

Collection(kinds, sectors) ==
    LightCurveCollection([i \in DOMAIN kinds |->
                             Meta(kinds[i][1], kinds[i][2], sectors[i], i)])

PriorityLists ==
    { <<"SPOC", "TESS-SPOC", "QLP", "TASOC">>, <<"TESS-SPOC", "SPOC">>,
      <<"QLP", "TESS-SPOC">>, <<"QLP">>, <<"TASOC">>, <<>> }

InitSelect ==
    /\ fs = {}
    /\ cacheDir = [r \in Roots |-> NoCacheDir]
    /\ clock = 0
    /\ directories = Roots
    /\ obsid_path_dicts = [r \in Roots |-> EmptyDict]
    /\ update_dicts = [r \in Roots |-> NoneReport]
    /\ op = NoOp
    /\ scanLog = [r \in Roots |-> NoScan]
    /\ scans = 0
    /\ NoSearch
    /\ NoRevise
    /\ \E n \in 0..MaxSeries :
       \E kinds \in [1..n -> SeriesKinds], sectors \in [1..n -> 1..MaxSector] :
           collection = Collection(kinds, sectors)
    /\ selected = NoSelected
    /\ NoSeriesOp

SelectLc ==
    /\ selected.kind = "idle"
    /\ \E author_priority_list \in PriorityLists :
        /\ selected' =
             [author_priority_list |-> author_priority_list] @@
             select_lc_with_author_priority(collection, author_priority_list)
        /\ UNCHANGED <<fs, directories, obsid_path_dicts, cacheVars,
                       searchVars, reviseVars, collection, seriesVars>>

NextSelect == SelectLc

SpecSelect == InitSelect /\ [][NextSelect]_vars

(* What the claims about the selection speak of.                           *)
Sectors(coll) == Range(sector(coll))
SeriesOf(coll, sec) == {i \in DOMAIN coll : coll[i].SECTOR = sec}
Several(coll, sec) == Cardinality(SeriesOf(coll, sec)) > 1
HasRevisedAuthor(x) == revise_author(x).kind = "done"
RevisedAuthor(x) == revise_author(x).lc.AUTHOR
RevisedAuthors(coll, sec) ==
    {RevisedAuthor(coll[i]) : i \in {j \in SeriesOf(coll, sec) :
                                        HasRevisedAuthor(coll[j])}}
Kept(sec) == {i \in DOMAIN selected.lcs : selected.lcs[i].SECTOR = sec}

(* Each sector holding several series has a series whose revised author is *)
(* in the priority list.                                                   *)
EverySectorMatches ==
    \A sec \in Sectors(collection) :
        Several(collection, sec) =>
            RevisedAuthors(collection, sec)
                \cap Range(selected.author_priority_list) # {}

(* No sector holding several series has a series _revise_author rejects.   *)
EverySeriesRevisable ==
    \A sec \in Sectors(collection) :
        Several(collection, sec) =>
            \A i \in SeriesOf(collection, sec) : HasRevisedAuthor(collection[i])

OnePerSectorAscending ==
    /\ Len(selected.lcs) = Cardinality(Sectors(collection))
    /\ \A i, j \in DOMAIN selected.lcs :
           i < j => selected.lcs[i].SECTOR < selected.lcs[j].SECTOR
    /\ \A sec \in Sectors(collection) :
           ~Several(collection, sec) =>
               \A i \in SeriesOf(collection, sec) :
                   \E j \in Kept(sec) : selected.lcs[j] = collection[i]

C6_KeepsEarliestPriority ==
    selected.kind = "done" =>
        \A sec \in Sectors(collection) :
            Several(collection, sec) =>
                LET prs == selected.author_priority_list
                    hits == {k \in DOMAIN prs :
                                prs[k] \in RevisedAuthors(collection, sec)}
                IN  IF hits = {} THEN Kept(sec) = {}
                    ELSE LET first == CHOOSE k \in hits : \A j \in hits : k <= j
                         IN  /\ Cardinality(Kept(sec)) = 1
                             /\ \A i \in Kept(sec) :
                                  /\ selected.lcs[i].AUTHOR = prs[first]
                                  /\ \E j \in SeriesOf(collection, sec) :
                                       /\ HasRevisedAuthor(collection[j])
                                       /\ selected.lcs[i] =
                                            revise_author(collection[j]).lc

C6_Witness ==
    /\ selected.kind = "done"
    /\ selected.author_priority_list = <<"QLP", "TESS-SPOC">>
    /\ \E sec \in Sectors(collection) :
           /\ Several(collection, sec)
           /\ RevisedAuthors(collection, sec) = {"SPOC", "TESS-SPOC", "QLP"}
           /\ collection[1].AUTHOR = "SPOC"
           /\ \E i \in Kept(sec) : selected.lcs[i].AUTHOR = "QLP"


---------------------------------------------------------------------------
(* lc_collection.py: LightCurve.split_by_gap and LightCurve.fill_gaps.     *)
(* A series is [cad, samples]: cad tells whether it has a cadenceno        *)
(* column, a sample is [time, flux, nan], nan standing for a NaN flux. A   *)
(* series with the column is sampled once per time unit: the cadence       *)
(* number of a sample is its time.                                         *)
Sample(t, f) == [time |-> t, flux |-> f, nan |-> FALSE]
NanSample(t) == [time |-> t, flux |-> 0, nan |-> TRUE]

time_value(samples) == [i \in DOMAIN samples |-> samples[i].time]

(* lc.sort(): the samples by ascending time. The sort is not stable, so    *)
(* samples of equal time come out in any order: p is the order taken.      *)
SortedOrders(samples) ==
    {p \in Perms(DOMAIN samples) :
        \A i, j \in DOMAIN p :
            i < j => samples[p[i]].time <= samples[p[j]].time}
sort(samples, p) == [i \in DOMAIN p |-> samples[p[i]]]

(* np.diff *)
diff(t) == [i \in 1..(Len(t) - 1) |-> t[i + 1] - t[i]]

(* np.where(time_diff > gap_threshold)[0].tolist(): indices from 0 *)
where_greater(time_diff, gap_threshold) ==
    ascending({i - 1 : i \in {j \in DOMAIN time_diff :
                                 time_diff[j] > gap_threshold}})

gap_indices(time_diff, gap_threshold) ==
    <<0>> \o where_greater(time_diff, gap_threshold) \o <<-1>>

(* A slice that starts behind the gap index whatever it is.                *)
start_behind(g) == g + 1

(* The bounds of the slice lc[start:stop] yielded for a pair of gap        *)
(* indices; a stop of None is the length n of the series.                  *)
slice_start(g) == IF g # 0 THEN g + 1 ELSE 0
slice_stop(g, n) == IF g = -1 THEN n ELSE g + 1

(* lc[start:stop], indices from 0 and stop excluded *)
slice(samples, start, stop) == SubSeq(samples, start + 1, stop)

(* The segments split_by_gap yields for the sorted copy lc of self.        *)
split_by_gap(sorted_lc, gap_threshold) ==
    LET g == gap_indices(diff(time_value(sorted_lc)), gap_threshold)
        yields == ascending({i \in 1..Len(g) :
                     g[i] # -1 /\ Abs(g[i + 1] - g[i]) >= 1})
    IN  [k \in DOMAIN yields |->
            slice(sorted_lc, slice_start(g[yields[k]]),
                  slice_stop(g[yields[k] + 1], Len(sorted_lc)))]

(* self.copy().remove_nans(): the samples whose flux is not NaN *)
remove_nans(samples) == SelectSeq(samples, LAMBDA x : ~x.nan)

(* fill_gaps holds its times (dt, ntime, the times of its result) in half  *)
(* units here: the median of whole numbers is a whole number of halves,    *)
(* and so is every timestamp built from it.                                *)
Halves(t) == 2 * t

(* The k-th smallest element of d, and np.nanmedian(d) in halves.          *)
kth(d, k) ==
    CHOOSE v \in Range(d) :
        /\ Cardinality({i \in DOMAIN d : d[i] < v}) < k
        /\ k <= Cardinality({i \in DOMAIN d : d[i] <= v})
nanmedian(d) ==
    IF Len(d) % 2 = 1 THEN 2 * kth(d, (Len(d) + 1) \div 2)
    ELSE kth(d, Len(d) \div 2) + kth(d, (Len(d) \div 2) + 1)

(* A test that lets gaps of up to 2.4 cadences stand.                      *)
exceeds_twice(t, prevtime, cadence) == 5 * (t - prevtime) > 12 * cadence

(* (t - prevtime) > 1.2 * dt *)
exceeds(t, prevtime, cadence) == 5 * (t - prevtime) > 6 * cadence

(* np.in1d(a, b) *)
in1d(a, b) == [i \in DOMAIN a |-> a[i] \in Range(b)]
count(mask) == Cardinality({i \in DOMAIN mask : mask[i]})
(* The position among the True entries of mask of its entry i.             *)
rank(mask, i) == Cardinality({j \in DOMAIN mask : mask[j] /\ j <= i})

(* A result that holds the synthesized samples only.                       *)
newdata_synthesized(times, in_original, flux, fill) ==
    LET synth == SelectSeq([i \in DOMAIN times |-> i],
                           LAMBDA i : ~in_original[i])
    IN  [k \in DOMAIN synth |->
            [time |-> times[synth[k]], flux |-> 0, nan |-> fill = "NaN",
             synth |-> TRUE]]

(* The columns of the result: f = zeros; f[in_original] = flux;            *)
(* f[~in_original] = 0 or NaN. A flux of one value is broadcast.           *)
newdata(times, in_original, flux, fill) ==
    [i \in DOMAIN times |->
        IF in_original[i]
        THEN [time |-> times[i],
              flux |-> IF Len(flux) = 1 THEN flux[1]
                       ELSE flux[rank(in_original, i)],
              nan |-> FALSE, synth |-> FALSE]
        ELSE [time |-> times[i], flux |-> 0, nan |-> fill = "NaN",
              synth |-> TRUE]]

Filled(out) == [kind |-> "done", err |-> "", lc |-> out]
FillRaised(e) == [kind |-> "raised", err |-> e, lc |-> <<>>]

Methods == {"zero", "NaN", "linear"}

(* The end of fill_gaps from "Fill in time points" on, for the timestamps  *)
(* times and the mask in_original.                                         *)
fill_in(l, times, in_original, fill) ==
    IF Len(in_original) # Len(times) THEN FillRaised("IndexError")
    ELSE IF Len(l) # 1 /\ count(in_original) # Len(l)
    THEN FillRaised("ValueError")
    ELSE IF fill \notin {"zero", "NaN"} THEN FillRaised("NotImplementedError")
    ELSE Filled(newdata(times, in_original,
                        [i \in DOMAIN l |-> l[i].flux], fill))

(* The branch taken with a cadenceno column. Its timestamps, ndt + median  *)
(* * ncad, are interpolated real numbers: the result is recorded with the  *)
(* cadence number of each sample in the place of its time.                 *)
arange(first, stop) == [k \in 1..(stop - first) |-> first + k - 1]

fill_by_cadenceno(l, fill) ==
    IF l = <<>> THEN FillRaised("IndexError")
    ELSE LET cadenceno == time_value(l)
             all == arange(cadenceno[1], cadenceno[Len(l)] + 1)
             in_original == in1d(all, cadenceno)
             missing == SelectSeq(all, LAMBDA c : c \notin Range(cadenceno))
             ncad == missing \o cadenceno
         IN  IF Len(in_original) # Len(ncad) THEN FillRaised("IndexError")
             ELSE fill_in(l, all, in_original, fill)

---------------------------------------------------------------------------
(* lc_collection.py: LightCurve.fast_bin, called with num_bins and with or *)
(* without a whole-numbered bin_width, x_min and x_max left at None.       *)
(* With n = num_bins and whole-numbered times, the real numbers x_min,     *)
(* x_max, bin_width, bin_spacing, bin_min and bin_max of the code are      *)
(* whole multiples of 1/(n(n-1)) and are held in that unit; the times of   *)
(* the result, which add bin_spacing / 2, are held in half that unit, and  *)
(* its fluxes, medians of whole numbers, in halves. The arithmetic is      *)
(* exact: the rounding of the code's floating point is not modelled.       *)
Unit(num_bins) == num_bins * (num_bins - 1)

BinRaised(e, num_bins) ==
    [kind |-> "raised", err |-> e, num_bins |-> num_bins,
     bin_width |-> ArgNone, lc |-> <<>>]
Binned(out, num_bins) ==
    [kind |-> "done", err |-> "", num_bins |-> num_bins,
     bin_width |-> ArgNone, lc |-> out]

(* A result sized by the shorter of num_bins and the series.               *)
result_size_capped(num_bins, x_len) ==
    IF num_bins < x_len THEN num_bins ELSE x_len

(* np.repeat(np.nan, num_bins): the length of result *)
result_size(num_bins, x_len) == num_bins

(* A loop that leaves the last bin out.                                    *)
range_short(num_bins) == [i \in 1..(num_bins - 1) |-> i - 1]

(* range(num_bins) *)
range(num_bins) == [i \in 1..num_bins |-> i - 1]

(* A sweep that also passes the samples at the bound itself.               *)
RECURSIVE advance_past(_, _, _, _)
advance_past(x, j, bound, unit) ==
    IF j < Len(x) /\ x[j + 1] * unit <= bound
    THEN advance_past(x, j + 1, bound, unit)
    ELSE j

(* while j < x_len and x[j] < bound: j += 1, with j counted from 0 *)
RECURSIVE advance(_, _, _, _)
advance(x, j, bound, unit) ==
    IF j < Len(x) /\ x[j + 1] * unit < bound
    THEN advance(x, j + 1, bound, unit)
    ELSE j

(* np.nanmedian(y[j_start:j_end]), NaN when every flux of the slice is NaN *)
bin_median(samples, j_start, j_end) ==
    LET y == remove_nans(slice(samples, j_start, j_end))
    IN  IF y = <<>> THEN [flux |-> 0, nan |-> TRUE]
        ELSE [flux |-> nanmedian([i \in DOMAIN y |-> y[i].flux]),
              nan |-> FALSE]

(* The for loop over the bins todo: per bin its index i, the slice         *)
(* y[first:stop] it takes and the value it writes to result[i], if any.    *)
RECURSIVE bin_loop(_, _, _, _, _, _, _, _)
bin_loop(samples, todo, j_start, j_end, bin_min, bin_max, bin_spacing, unit) ==
    IF todo = <<>> THEN <<>>
    ELSE LET x == time_value(samples)
             first == advance(x, j_start, bin_min, unit)
             stop == advance(x, j_end, bin_max, unit)
             m == IF stop > first THEN bin_median(samples, first, stop)
                  ELSE [flux |-> 0, nan |-> TRUE]
         IN  <<[i |-> Head(todo), first |-> first, stop |-> stop,
                written |-> stop > first, flux |-> m.flux, nan |-> m.nan]>>
             \o bin_loop(samples, Tail(todo), first, stop,
                         bin_min + bin_spacing, bin_max + bin_spacing,
                         bin_spacing, unit)

(* np.linspace(start, stop, num, endpoint=True) *)
linspace(start, stop, num) ==
    [i \in 1..num |-> start + (i - 1) * ((stop - start) \div (num - 1))]

(* self.__class__(time=..., flux=result): the columns must be as long.     *)
bin_lightcurve(time, bins, size, num_bins) ==
    IF \E k \in DOMAIN bins : bins[k].written /\ bins[k].i >= size
    THEN BinRaised("IndexError", num_bins)
    ELSE IF Len(time) # size THEN BinRaised("ValueError", num_bins)
    ELSE Binned([k \in 1..size |->
                    IF k \in DOMAIN bins
                    THEN [time |-> time[k], flux |-> bins[k].flux,
                          nan |-> bins[k].nan, first |-> bins[k].first,
                          stop |-> bins[k].stop]
                    ELSE [time |-> time[k], flux |-> 0, nan |-> TRUE,
                          first |-> 0, stop |-> 0]],
                num_bins)

fast_bin(samples, num_bins, width) ==
    LET x == time_value(samples)
        x_len == Len(x)
        unit == Unit(num_bins)
    IN  IF num_bins < 2 THEN BinRaised("ValueError", num_bins)
        ELSE IF x_len < 2 THEN BinRaised("ValueError", num_bins)
        ELSE LET x_min == x[1] * unit
                 x_max == x[x_len] * unit
                 bin_width == IF width.kind = "num" THEN width.n * unit
                              ELSE (x_max - x_min) \div num_bins
                 bin_spacing == (x_max - x_min - bin_width) \div (num_bins - 1)
                 x_start == advance(x, 0, x_min, unit)
             IN  IF x_min >= x_max THEN BinRaised("ValueError", num_bins)
                 ELSE IF x_min > x[x_len] * unit
                 THEN BinRaised("ValueError", num_bins)
                 ELSE IF bin_width <= 0 THEN BinRaised("ValueError", num_bins)
                 ELSE IF bin_width >= x_max - x_min
                 THEN BinRaised("ValueError", num_bins)
                 ELSE bin_lightcurve(
                          linspace(2 * x_min + bin_spacing,
                                   2 * x_max - bin_spacing, num_bins),
                          bin_loop(samples, range(num_bins), x_start, x_start,
                                   x_min, x_min + bin_width, bin_spacing,
                                   unit),
                          result_size(num_bins, x_len), num_bins)

(* The cap on the length of ntime: the loop of a call that returns stays   *)
(* below it, see NtimeCapIsSlack.                                          *)
NtimeCap == 2 * MaxTime + MaxLen + 2

(* The series specification: a series of up to MaxLen samples at times     *)
(* 0..MaxTime in any order, with or without NaN fluxes and a cadenceno     *)
(* column, the i-th flux being i; one call of split_by_gap or of           *)
(* fill_gaps on it, the latter followed through its loop.                  *)
Series(cad, times, nans) ==
    [cad |-> cad,
     samples |-> [i \in DOMAIN times |-> IF nans[i] THEN NanSample(times[i])
                                         ELSE Sample(times[i], i)]]

Thresholds == -1..MaxThreshold

NumBins == 0..MaxBins

(* bin_width: None or a whole number *)
BinWidths == {ArgNone} \cup {ArgNum(w) : w \in 0..MaxWidth}

InitSeries ==
    /\ fs = {}
    /\ cacheDir = [r \in Roots |-> NoCacheDir]
    /\ clock = 0
    /\ directories = Roots
    /\ obsid_path_dicts = [r \in Roots |-> EmptyDict]
    /\ update_dicts = [r \in Roots |-> NoneReport]
    /\ op = NoOp
    /\ scanLog = [r \in Roots |-> NoScan]
    /\ scans = 0
    /\ NoSearch
    /\ NoRevise
    /\ NoSelect
    /\ \E n \in 0..MaxLen, cad \in BOOLEAN :
       \E times \in [1..n -> 0..MaxTime], nans \in [1..n -> BOOLEAN] :
           series = Series(cad, times, nans)
    /\ segments = NoSegments
    /\ NoFill
    /\ binned = NoBinned

otherVars == <<fs, directories, obsid_path_dicts, cacheVars, searchVars,
               reviseVars, selectVars>>

(* list(self.split_by_gap(gap_threshold)) *)
SplitByGap ==
    /\ pc = "idle"
    /\ segments.kind = "idle"
    /\ binned.kind = "idle"
    /\ \E p \in SortedOrders(series.samples), gap_threshold \in Thresholds :
        segments' =
             [kind |-> "done", gap_threshold |-> gap_threshold,
              sorted |-> sort(series.samples, p),
              yielded |-> split_by_gap(sort(series.samples, p),
                                       gap_threshold)]
    /\ UNCHANGED <<series, pc, method, dt, ntime, tpos, filled, binned,
                   otherVars>>

(* self.fill_gaps(method) up to the loop over lc.time.value[1::]; the      *)
(* whole of it for a series with a cadenceno column. For a single sample   *)
(* dt is NaN and never compared: it is left at 0.                          *)
FillStart ==
    /\ pc = "idle"
    /\ segments.kind = "idle"
    /\ binned.kind = "idle"
    /\ \E fill \in Methods :
        /\ method' = fill
        /\ LET l == remove_nans(series.samples)
           IN  IF series.cad
               THEN /\ filled' = fill_by_cadenceno(l, fill)
                    /\ pc' = filled'.kind
                    /\ UNCHANGED <<dt, ntime, tpos>>
               ELSE IF l = <<>>
               THEN /\ filled' = FillRaised("IndexError")
                    /\ pc' = "raised"
                    /\ UNCHANGED <<dt, ntime, tpos>>
               ELSE /\ dt' = IF Len(l) > 1 THEN nanmedian(diff(time_value(l)))
                             ELSE 0
                    /\ ntime' = <<Halves(l[1].time)>>
                    /\ tpos' = 2
                    /\ pc' = "loop"
                    /\ UNCHANGED filled
        /\ UNCHANGED <<series, segments, binned, otherVars>>

(* One turn of the while loop: ntime.append(prevtime + dt) *)
FillInsert ==
    LET l == remove_nans(series.samples)
    IN  /\ pc = "loop"
        /\ tpos <= Len(l)
        /\ exceeds(Halves(l[tpos].time), ntime[Len(ntime)], dt)
        /\ Len(ntime) < NtimeCap
        /\ ntime' = Append(ntime, ntime[Len(ntime)] + dt)
        /\ UNCHANGED <<series, segments, pc, method, dt, tpos, filled,
                       binned, otherVars>>

(* The while loop is left: ntime.append(t), and the next t *)
FillAppend ==
    LET l == remove_nans(series.samples)
    IN  /\ pc = "loop"
        /\ tpos <= Len(l)
        /\ ~exceeds(Halves(l[tpos].time), ntime[Len(ntime)], dt)
        /\ ntime' = Append(ntime, Halves(l[tpos].time))
        /\ tpos' = tpos + 1
        /\ UNCHANGED <<series, segments, pc, method, dt, filled, binned,
                       otherVars>>

(* The for loop is over: in_original and the columns of the result *)
FillFinish ==
    LET l == remove_nans(series.samples)
        times == [i \in DOMAIN l |-> Halves(l[i].time)]
    IN  /\ pc = "loop"
        /\ tpos > Len(l)
        /\ filled' = fill_in(l, ntime, in1d(ntime, times), method)
        /\ pc' = filled'.kind
        /\ UNCHANGED <<series, segments, method, dt, ntime, tpos, binned,
                       otherVars>>

(* self.fast_bin(num_bins) and self.fast_bin(num_bins, bin_width) *)
FastBin ==
    /\ pc = "idle"
    /\ segments.kind = "idle"
    /\ binned.kind = "idle"
    /\ \E num_bins \in NumBins, bin_width \in BinWidths :
        binned' = [fast_bin(series.samples, num_bins, bin_width)
                       EXCEPT !.bin_width = bin_width]
    /\ UNCHANGED <<series, segments, pc, method, dt, ntime, tpos, filled,
                   otherVars>>

NextSeries ==
    \/ SplitByGap
    \/ FastBin
    \/ FillStart
    \/ FillInsert
    \/ FillAppend
    \/ FillFinish

SpecSeries == InitSeries /\ [][NextSeries]_vars

(* The cap stops only loops that never end: at the cap the next insertion  *)
(* is due and dt is not positive.                                          *)
NtimeCapIsSlack ==
    (pc = "loop" /\ Len(ntime) = NtimeCap) =>
        LET l == remove_nans(series.samples)
        IN  (tpos <= Len(l)
             /\ exceeds(Halves(l[tpos].time), ntime[Len(ntime)], dt))
                => dt <= 0

(* An insertion is due with a cadence that is not positive: the while      *)
(* loop is in a turn it cannot leave, t - prevtime does not shrink.        *)
InsertsForEver ==
    /\ pc = "loop"
    /\ tpos <= Len(remove_nans(series.samples))
    /\ exceeds(Halves(remove_nans(series.samples)[tpos].time),
               ntime[Len(ntime)], dt)
    /\ dt <= 0
InsertsForEverStays == [][InsertsForEver => InsertsForEver']_vars

RECURSIVE SumLen(_)
SumLen(ss) == IF ss = <<>> THEN 0 ELSE Len(Head(ss)) + SumLen(Tail(ss))

NonNan(samples) == {i \in DOMAIN samples : ~samples[i].nan}

Occurrences(samples, x) ==
    Cardinality({i \in DOMAIN samples : samples[i] = x})
IsSortedCopy(sorted, samples) ==
    /\ Len(sorted) = Len(samples)
    /\ \A x \in Range(samples) :
           Occurrences(sorted, x) = Occurrences(samples, x)
    /\ \A i \in 1..(Len(sorted) - 1) : sorted[i].time <= sorted[i + 1].time

(* C8: the segments split_by_gap yields, concatenated in the order they    *)
(* are yielded, are the time-sorted series sample for sample, and their    *)
(* lengths add up to the length of the series.                             *)
C8_SegmentsPartition ==
    segments.kind = "done" =>
        /\ Flatten(segments.yielded) = segments.sorted
        /\ SumLen(segments.yielded) = Len(series.samples)
        /\ IsSortedCopy(segments.sorted, series.samples)

C8_Witness ==
    /\ segments.kind = "done"
    /\ Len(series.samples) = 3
    /\ Len(segments.yielded) = 2
    /\ segments.sorted # series.samples
    /\ segments.sorted[2].time - segments.sorted[1].time
           > segments.gap_threshold

C10_ObservedPreserved ==
    (~series.cad /\ method = "zero" /\ NonNan(series.samples) # {}) =>
        /\ pc # "raised"
        /\ pc = "done" =>
             LET l == remove_nans(series.samples)
             IN  /\ SelectSeq(filled.lc, LAMBDA x : ~x.synth) =
                      [i \in DOMAIN l |->
                          [time |-> Halves(l[i].time), flux |-> l[i].flux,
                           nan |-> FALSE, synth |-> FALSE]]
                 /\ \A i \in DOMAIN filled.lc :
                        filled.lc[i].synth =>
                            filled.lc[i].flux = 0 /\ ~filled.lc[i].nan

(* C11: for a series of at least 2 samples whose first time is less than   *)
(* its last time, fast_bin(num_bins) with num_bins >= 2 returns exactly    *)
(* num_bins samples; with num_bins < 2 it raises ValueError whatever the   *)
(* series.                                                                 *)
C11_ReturnsNumBins ==
    binned.kind # "idle" =>
        LET x == time_value(series.samples)
        IN  /\ binned.num_bins < 2 =>
                binned.kind = "raised" /\ binned.err = "ValueError"
            /\ (/\ binned.bin_width = ArgNone
                /\ binned.num_bins >= 2 /\ Len(x) >= 2 /\ x[1] < x[Len(x)]) =>
                binned.kind = "done" /\ Len(binned.lc) = binned.num_bins

C11_Witness ==
    /\ binned.kind = "done"
    /\ binned.bin_width = ArgNone
    /\ Len(series.samples) = 3
    /\ binned.num_bins = 4
    /\ Len(binned.lc) = 4
    /\ \E k \in DOMAIN binned.lc : binned.lc[k].stop = binned.lc[k].first


(* C12: in every SearchResults returned by search_lightcurve no two paths  *)
(* share a file name, every path returned is one the search found, and     *)
(* every file name the search found is the name of exactly one path        *)
(* returned, also when it was found under two roots.                       *)
C12_OnePathPerFoundName ==
    searchResult.kind = "SearchResults" =>
        /\ \A i, j \in DOMAIN searchResult.files :
               searchResult.files[i].name = searchResult.files[j].name
                   => i = j
        /\ Range(searchResult.files) \subseteq Range(searchResult.found)
        /\ \A f \in Range(searchResult.found) :
               Cardinality({i \in DOMAIN searchResult.files :
                               searchResult.files[i].name = f.name}) = 1

C12_Witness ==
    /\ searchResult.kind = "SearchResults"
    /\ directories = Roots
    /\ \E f, g \in Range(searchResult.found) :
           f.name = g.name /\ f.root # g.root
    /\ Len(searchResult.files) = 2


---------------------------------------------------------------------------
(* What the claims about the constraints of a search speak of.             *)

(* The author a file name stands for, and its exposure time in seconds:    *)
(* fixed by the pipeline (SPOC: 120, its fast variant: 20), spelled in the *)
(* name (TASOC), or given by the sector (the other pipelines).             *)
AuthorOf(name) == IF name.pipe = "SPOC_FAST" THEN "SPOC" ELSE name.pipe
SectorExptime(s) == IF s < 27 THEN 1800 ELSE IF s < 56 THEN 600 ELSE 200
ExptimeOf(name) ==
    CASE name.pipe = "SPOC" -> 120
      [] name.pipe = "SPOC_FAST" -> 20
      [] name.pipe = "TASOC" -> name.cad
      [] OTHER -> SectorExptime(name.sector)

(* The normalized exposure-time set of an argument: a class gives its      *)
(* values, a number itself, a collection the union over its elements.      *)
RECURSIVE ExptimeSet(_)
ExptimeSet(exptime) ==
    CASE exptime.kind = "str" /\ exptime.s = "fast" -> {20}
      [] exptime.kind = "str" /\ exptime.s = "short" -> {60, 120}
      [] exptime.kind = "str" /\ exptime.s \in {"long", "ffi"} ->
            {600, 1200, 1800}
      [] exptime.kind = "num" -> {exptime.n}
      [] exptime.kind = "list" ->
            UNION {ExptimeSet(exptime.l[i]) : i \in DOMAIN exptime.l}
      [] exptime.kind = "none" -> {STAR}
      [] OTHER -> {}

RECURSIVE ValidExptime(_)
ValidExptime(exptime) ==
    CASE exptime.kind = "str" -> exptime.s \in {"fast", "short", "long", "ffi"}
      [] exptime.kind = "list" ->
            \A i \in DOMAIN exptime.l : ValidExptime(exptime.l[i])
      [] exptime.kind \in {"num", "none"} -> TRUE
      [] OTHER -> FALSE

Wildcard(arg) ==
    arg.kind = "none" \/ (arg.kind = "str" /\ arg.s \in {"*", "all"})
AuthorSet(author) ==
    IF Wildcard(author) THEN Range(AUTHOR_LIST)
    ELSE IF author.kind = "str" THEN {author.s}
    ELSE Range(author.l)
SectorSet(arg) ==
    IF arg.kind = "num" THEN {arg.n} ELSE Range(arg.l)

(* A query whose arguments are of the kinds and the vocabulary the         *)
(* constraints are defined for.                                            *)
ValidQuery(q) ==
    /\ Wildcard(q.sector) \/ q.sector.kind \in {"num", "list"}
    /\ Wildcard(q.author) \/ q.author.kind \in {"str", "list"}
    /\ AuthorSet(q.author) \subseteq Range(AUTHOR_LIST)
    /\ ValidExptime(q.exptime)

(* The file name satisfies the target, author, sector and exposure-time    *)
(* constraints of the query.                                               *)
Satisfies(q, name) ==
    /\ name.id = q.target
    /\ AuthorOf(name) \in AuthorSet(q.author)
    /\ Wildcard(q.sector) \/ name.sector \in SectorSet(q.sector)
    /\ q.exptime.kind = "none" \/ ExptimeOf(name) \in ExptimeSet(q.exptime)

UnderRoots == {p \in fs : p.root \in directories}

(* C13: a search with valid arguments returns None exactly when no file    *)
(* under the configured roots has the target id and satisfies the author,  *)
(* sector and exposure-time constraints; it does not raise.                *)
C13_NoneIffNothingMatches ==
    (searchResult.kind # "idle" /\ ValidQuery(query)) =>
        /\ searchResult.kind # "raised"
        /\ searchResult.kind = "None" <=>
               ~\E p \in UnderRoots : Satisfies(query, p.name)


(* An author argument, single or a collection, with a value outside        *)
(* AUTHOR_LIST, the other arguments being valid.                           *)
UnknownAuthor(q) ==
    /\ q.author.kind \in {"str", "list"}
    /\ ~Wildcard(q.author)
    /\ ~(AuthorSet(q.author) \subseteq Range(AUTHOR_LIST))
    /\ Wildcard(q.sector) \/ q.sector.kind \in {"num", "list"}
    /\ ValidExptime(q.exptime)

(* C14: a search whose author argument holds a value outside AUTHOR_LIST,  *)
(* as a single value or as an element of a collection, raises ValueError   *)
(* whatever the indexes and the directories hold.                          *)
C14_UnknownAuthorRaises ==
    (searchResult.kind # "idle" /\ UnknownAuthor(query)) =>
        searchResult.kind = "raised" /\ searchResult.err = "ValueError"


(* C15: the exposure times a search runs over, set(_pack_exptime(exptime)),*)
(* are the normalized set of the argument: {20} for "fast", {60, 120} for  *)
(* "short", {600, 1200, 1800} for "long" and "ffi", the number itself, the *)
(* wildcard when unset, and for a collection the union over its elements.  *)
C15_ExptimeNormalization ==
    (searchResult.kind # "idle" /\ ValidExptime(query.exptime)) =>
        LET packed == pack_exptime(query.exptime)
        IN  packed.err = "" /\ Range(packed.out) = ExptimeSet(query.exptime)


(* C16: a search that returns with the exposure time unset holds every     *)
(* file under the roots that has the target id and satisfies the author    *)
(* and sector constraints, whatever its cadence: for author SPOC the       *)
(* 2-minute files and the 20-second files alike.                           *)
C16_UnsetExptimeKeepsEveryCadence ==
    (/\ searchResult.kind \in {"None", "SearchResults"}
     /\ ValidQuery(query)
     /\ query.exptime = ArgNone) =>
        \A p \in UnderRoots :
            Satisfies(query, p.name) => p.name \in ResultNames


(* C17: when an exposure-time constraint is given, every file of the       *)
(* result has an exposure time, as its pipeline and sector fix it, that    *)
(* is in the normalized exposure-time set, whatever the authors requested. *)
C17_ResultWithinExptimeSet ==
    (/\ searchResult.kind = "SearchResults"
     /\ ValidQuery(query)
     /\ query.exptime # ArgNone) =>
        \A f \in Range(searchResult.files) :
            ExptimeOf(f.name) \in ExptimeSet(query.exptime)


(* C18: the update report a scan returns for a root is empty (None or {})  *)
(* when no snapshot was persisted before; otherwise it is the dict that    *)
(* maps each object id to exactly the paths of the newly scanned index     *)
(* that the latest persisted snapshot lacks, ids without such a path       *)
(* omitted, whether or not the report is saved to disk.                    *)
C18_ReportIsNewMinusPersisted ==
    op.kind = "scan" =>
        \A r \in directories :
            LET report == update_dicts[r]
                previous == op.prevSnap[r]
            IN  IF ~previous.exists
                THEN report.none \/ report.dict = EmptyDict
                ELSE /\ ~report.none
                     /\ \A k \in ObsIds :
                            Range(report.dict[k]) =
                                Range(obsid_path_dicts[r][k])
                                    \ Range(previous.content[k])


(* C19: split_by_gap on an empty series yields no segments.                *)
C19_EmptySeriesYieldsNothing ==
    (segments.kind = "done" /\ series.samples = <<>>) =>
        segments.yielded = <<>>

(* C20: for every file name of TESS-SPOC, QLP or TASOC with sector s, the   *)
(* identifier extraction a scan applies yields exposure time 1800 if       *)
(* s < 27, 600 if 27 <= s < 56 and 200 if s >= 56. The extraction yields   *)
(* the groups its pattern captures, so the exposure time has to be one of  *)
(* them.                                                                   *)
C20_ScanYieldsSectorExptime ==
    op.kind = "scan" =>
        \A p \in UnderRoots :
            p.name.pipe \in {"TESS-SPOC", "QLP", "TASOC"} =>
                SectorExptime(p.name.sector) \in Range(ScanGroups(p.name))


(* C21: split_by_gap cuts at every gap: inside every yielded segment all   *)
(* consecutive time differences are <= gap_threshold, and the number of    *)
(* segments is 1 plus the number of consecutive differences of the sorted  *)
(* series that exceed gap_threshold, wherever those gaps lie (between the  *)
(* first two samples included).                                            *)
C21_CutsAtEveryGap ==
    segments.kind = "done" =>
        LET time_diff == diff(time_value(segments.sorted))
            gaps == {i \in DOMAIN time_diff :
                        time_diff[i] > segments.gap_threshold}
        IN  /\ \A k \in DOMAIN segments.yielded :
                   LET d == diff(time_value(segments.yielded[k]))
                   IN  \A i \in DOMAIN d : d[i] <= segments.gap_threshold
            /\ Len(segments.yielded) = 1 + Cardinality(gaps)


StrictlyIncreasing(t) == \A i \in 1..(Len(t) - 1) : t[i] < t[i + 1]

NonDecreasing(t) == \A i \in 1..(Len(t) - 1) : t[i] <= t[i + 1]

(* The bins as the claims describe them, in the unit of fast_bin: the      *)
(* width, the spacing (x_max - x_min - bin_width) / (num_bins - 1), and    *)
(* the samples of bin i, those with                                        *)
(* x_min + i * spacing <= time < x_min + i * spacing + bin_width.          *)
WidthOf(samples, num_bins, width) ==
    LET x == time_value(samples)
    IN  IF width.kind = "num" THEN width.n * Unit(num_bins)
        ELSE ((x[Len(x)] - x[1]) * Unit(num_bins)) \div num_bins
SpacingOf(samples, num_bins, width) ==
    LET x == time_value(samples)
    IN  ((x[Len(x)] - x[1]) * Unit(num_bins)
            - WidthOf(samples, num_bins, width)) \div (num_bins - 1)
InBin(samples, num_bins, width, i) ==
    LET lo == samples[1].time * Unit(num_bins)
                  + i * SpacingOf(samples, num_bins, width)
    IN  {j \in DOMAIN samples :
            /\ lo <= samples[j].time * Unit(num_bins)
            /\ samples[j].time * Unit(num_bins)
                   < lo + WidthOf(samples, num_bins, width)}

SpecSeriesLive ==
    /\ InitSeries
    /\ [][NextSeries]_vars
    /\ WF_vars(FillInsert \/ FillAppend \/ FillFinish)

(* C24: fill_gaps terminates on every series with at least two non-NaN     *)
(* samples and no cadenceno column, whatever the order or repetition of    *)
(* its timestamps: a call that has entered the gap-insertion loop leaves   *)
(* it, returning or raising.                                               *)
C24_FillGapsTerminates ==
    (/\ pc = "loop"
     /\ ~series.cad
     /\ Cardinality(NonNan(series.samples)) >= 2) ~> (pc # "loop")


(* Every configured root's index is what a scan of the root as it is now   *)
(* records: per object id the files under the root the scan gives that id. *)
IndexesAreScans ==
    \A r \in directories : \A k \in ObsIds :
        /\ Range(obsid_path_dicts[r][k]) =
               {p \in Under(fs, r) : ScanObsid(p.name) = k}
        /\ Len(obsid_path_dicts[r][k]) =
               Cardinality(Range(obsid_path_dicts[r][k]))

(* The names a live recursive glob of the configured roots finds for the   *)
(* patterns of the query.                                                  *)
LiveNames == {p.name : p \in {f \in UnderRoots : Found(query, f.name)}}

(* C25: when each root's index was built by scanning that root and the     *)
(* file system has not changed since, search_lightcurve using the indexes  *)
(* returns the same set of file names as search_lightcurve with empty      *)
(* indexes (a live recursive glob of the roots), for every target id and   *)
(* every author, sector and exposure-time constraint the live search       *)
(* accepts, authors and file names the scan does not record included.      *)
C25_CacheLiveEquivalence ==
    (/\ searchResult.kind # "idle"
     /\ IndexesAreScans
     /\ \A o \in EtOrders(query.exptime) :
            kwargs_pattern_generator(query, o).err = "") =>
        /\ searchResult.kind \in {"None", "SearchResults"}
        /\ ResultNames = LiveNames


(* The bins whose median sample j contributes to: those whose slice        *)
(* y[first:stop] holds it.                                                 *)
BinsOf(j) ==
    {k \in DOMAIN binned.lc :
        binned.lc[k].first < j /\ j <= binned.lc[k].stop}

DefaultBinning ==
    /\ binned.kind = "done"
    /\ binned.bin_width = ArgNone
    /\ StrictlyIncreasing(time_value(series.samples))

IndexPairings ==
    IF op.kind = "cache_dicts" THEN Pairings(directories)
    ELSE {[r \in directories |-> r]}

(* What search_lightcurve returns for the query when the indexes are       *)
(* zipped as pairing tells and set(local_path) is run through in any       *)
(* order, rglob listing the file system as listing and the exposure times  *)
(* coming in the order etOrder.                                            *)
Outcomes(pairing, etOrder, listing) ==
    LET dicts == [r \in directories |-> obsid_path_dicts[pairing[r]]]
    IN  {search_lightcurve(dicts, directories, fs, query, pathOrder,
                           etOrder, listing) :
            pathOrder \in Perms(local_path(dicts, directories,
                                           query.target))}

(* C27: search_lightcurve is deterministic: for a fixed query, fixed       *)
(* loaded indexes and a fixed file system the returned path list is the    *)
(* same whatever order the set of candidate paths and the set of           *)
(* configured directories are run through, the full path kept of a file    *)
(* name that exists under two roots and the directory each index is        *)
(* paired with included.                                                   *)
C27_SearchIsDeterministic ==
    searchResult.kind # "idle" =>
        LET returned == [kind |-> searchResult.kind,
                         files |-> searchResult.files,
                         err |-> searchResult.err]
        IN  \A listing \in ListingChoices(directories),
               etOrder \in EtOrders(query.exptime) :
                returned \in Outcomes([r \in directories |-> r],
                                      etOrder, listing) =>
                    \A pairing \in IndexPairings :
                        Outcomes(pairing, etOrder, listing) = {returned}

===========================================================================
